---- MODULE Spec2Model ----
(***************************************************************************)
(* Model of the Bhagavad-Gita retrieval-augmented chat server              *)
(* (src/server.js) and its offline embedding builder                       *)
(* (src/generateEmbeddings.js).                                            *)
(*                                                                         *)
(* A JavaScript string is a sequence of one-character-or-longer tokens, so *)
(* that concatenation, join and trim are computed, not assumed.  External  *)
(* collaborators (embedding service, generation service, file system) are  *)
(* modelled by their interface: a call is in flight until it resolves with *)
(* one of a small set of results or rejects.  The generation SDK is taken  *)
(* to read the history array it is handed and not to write to it.          *)
(* Embedding vectors are non-zero integer vectors of one dimension count,  *)
(* and a cosine score is kept exactly as a signed squared fraction.        *)
(***************************************************************************)
EXTENDS Integers, Sequences, FiniteSets, TLC

VARIABLES
    phase,                   \* startServer: "loading", "loaded", "listening", "exited"
    file,                    \* content of gita-embeddings.json on disk
    pdfChunksWithEmbeddings, \* the Corpus Vector Store (a JavaScript value)
    loads,                   \* number of times loadEmbeddings has run
    exitCode,                \* process.exit code, -1 while the process lives
    sessionCache,            \* NodeCache data: sessionId -> [present, v, t]
    sweepDue,                \* the checkperiod timer has fired and _checkData is queued
    req,                     \* the /chat requests in flight, one record per connection slot
    lastSet,                 \* history: per sessionId, the turns last written and the time since
    sinceAccess,             \* history: per sessionId, time since the entry was last read or written
    call                     \* a single call of a helper function under test

vars == <<phase, file, pdfChunksWithEmbeddings, loads, exitCode, sessionCache,
          sweepDue, req, lastSet, sinceAccess, call>>

-----------------------------------------------------------------------------
(* Bounds of the model *)

\* longest session history (in turns) a request is still accepted for
MaxTurns == 4
\* number of /chat requests that can be in flight at once
NumSlots == 2
\* largest topK tried on retrieve
MaxTopK == 4
\* largest store tried on retrieve
MaxStore == 3
\* longest text handed to chunkText
MaxTextLen == 4
\* largest chunkSize handed to chunkText
MaxChunkSize == 3
\* number of chunks after which a chunkText loop is no longer followed
MaxPushes == 6
\* longest text handed to sanitizeText
MaxSanitizeLen == 6
\* largest number of chunks the source document is cut into
MaxChunks == 200

-----------------------------------------------------------------------------
(* Program constants *)

stdTTL == 3600
checkperiod == 600
HistoryWindow == 4
ChatTopK == 3
BATCH_SIZE == 99

-----------------------------------------------------------------------------
(* JavaScript values *)

Min(a, b) == IF a < b THEN a ELSE b

Undefined == [type |-> "undefined", s |-> <<>>]
Str(s) == [type |-> "string", s |-> s]

\* !v for the values a JSON body field takes here: undefined and "" are falsy
Falsy(v) == v.type = "undefined" \/ (v.type = "string" /\ v.s = <<>>)

\* a one-element array as the object it is: keys "0" and "length"
Arr1(e) == ("0" :> e) @@ ("length" :> 1)

\* the white space trim removes, of the characters used here; "NBSP" is the one
\* character U+00A0, a space separator that is not the ASCII space
Whitespace == {" ", "\n", "\t", "\r", "NBSP"}

RECURSIVE TrimStart(_)
TrimStart(s) == IF s # <<>> /\ Head(s) \in Whitespace THEN TrimStart(Tail(s)) ELSE s

RECURSIVE TrimEnd(_)
TrimEnd(s) ==
    IF s # <<>> /\ s[Len(s)] \in Whitespace THEN TrimEnd(SubSeq(s, 1, Len(s) - 1)) ELSE s

\* String.prototype.trim
Trim(s) == TrimEnd(TrimStart(s))

\* Array.prototype.join
RECURSIVE Join(_, _)
Join(parts, sep) ==
    IF parts = <<>> THEN <<>>
    ELSE IF Len(parts) = 1 THEN parts[1]
    ELSE parts[1] \o sep \o Join(Tail(parts), sep)

\* Array.prototype.slice(-n)
SliceLast(s, n) == IF Len(s) <= n THEN s ELSE SubSeq(s, Len(s) - n + 1, Len(s))

\* Array.prototype.slice(0, n), n >= 0
SliceFirst(s, n) == SubSeq(s, 1, Min(n, Len(s)))

\* Array.prototype.filter(Boolean) on an array of strings
RECURSIVE FilterNonEmpty(_)
FilterNonEmpty(ts) ==
    IF ts = <<>> THEN <<>>
    ELSE IF Head(ts) = <<>> THEN FilterNonEmpty(Tail(ts))
    ELSE <<Head(ts)>> \o FilterNonEmpty(Tail(ts))

-----------------------------------------------------------------------------
(* Conversation turns, as the /chat handler builds them *)

UserTurn(text) == [role |-> "user", parts |-> Arr1([text |-> text])]
ModelTurn(text) == [role |-> "model", parts |-> Arr1([text |-> text])]

\* the text a turn carries: parts[0].text
TurnText(h) == h.parts["0"].text

-----------------------------------------------------------------------------
(* Semantic Retriever: retrieveRelevantChunksVector *)

\* h?.parts?.text ?? ''  : the property "text" of the parts array itself
PartsText(h) == IF "text" \in DOMAIN h.parts THEN h.parts["text"] ELSE <<>>

recentHistoryText(history) ==
    Join(FilterNonEmpty([i \in 1..Len(SliceLast(history, HistoryWindow)) |->
                            PartsText(SliceLast(history, HistoryWindow)[i])]),
         <<"\n">>)

\* `${recentHistoryText} \n ${query}`
combinedQuery(history, query) == recentHistoryText(history) \o <<" ", "\n", " ">> \o query

RECURSIVE Dot(_, _)
Dot(a, b) == IF a = <<>> THEN 0 ELSE a[1] * b[1] + Dot(Tail(a), Tail(b))

Sgn(x) == IF x > 0 THEN 1 ELSE IF x < 0 THEN -1 ELSE 0

\* cosineSimilarity(a, b) = dot / (|a| |b|), kept exactly as sgn(dot) dot^2 / (|a|^2 |b|^2),
\* which orders and ties exactly as the cosine does
cosineSimilarity(a, b) ==
    [num |-> Sgn(Dot(a, b)) * Dot(a, b) * Dot(a, b), den |-> Dot(a, a) * Dot(b, b)]

ScoreLess(x, y) == x.num * y.den < y.num * x.den
ScoreEq(x, y) == x.num * y.den = y.num * x.den

scoredChunks(store, queryEmbedding) ==
    [i \in 1..Len(store) |->
        [text |-> store[i].text, score |-> cosineSimilarity(queryEmbedding, store[i].embedding)]]

\* a comparator that also moves b ahead of a on equal scores
ComesAfterOrTies(a, b) == ~ScoreLess(b.score, a.score)

\* the comparator (a, b) => b.score - a.score is positive: b must come before a
ComesAfter(a, b) == ScoreLess(a.score, b.score)

\* one insertion of a stable sort: x goes behind every element it does not beat
RECURSIVE InsertSorted(_, _)
InsertSorted(sorted, x) ==
    IF sorted = <<>> THEN <<x>>
    ELSE IF ComesAfter(Head(sorted), x) THEN <<x>> \o sorted
    ELSE <<Head(sorted)>> \o InsertSorted(Tail(sorted), x)

\* Array.prototype.sort with that comparator (stable since ES2019)
RECURSIVE SortByScore(_)
SortByScore(s) ==
    IF s = <<>> THEN <<>>
    ELSE InsertSorted(SortByScore(SubSeq(s, 1, Len(s) - 1)), s[Len(s)])

\* steps 2-4 of retrieveRelevantChunksVector, once the query embedding is known
RankedTexts(store, queryEmbedding, topK) ==
    LET top == SliceFirst(SortByScore(scoredChunks(store, queryEmbedding)), topK)
    IN  [i \in 1..Len(top) |-> top[i].text]

-----------------------------------------------------------------------------
(* Corpus Vector Store: the persisted file and what JSON.parse makes of it *)

JNull == [kind |-> "null", items |-> <<>>, n |-> 0]
JNum(k) == [kind |-> "number", items |-> <<>>, n |-> k]
JObj == [kind |-> "object", items |-> <<>>, n |-> 0]
JArr(items) == [kind |-> "array", items |-> items, n |-> 0]

\* !v on a parsed JSON value
JFalsy(v) == v.kind = "null" \/ (v.kind = "number" /\ v.n = 0)

\* v.length === 0 : only an array has a length here; undefined === 0 is false
LengthIsZero(v) == v.kind = "array" /\ Len(v.items) = 0

Chunk(text, embedding) == [text |-> text, embedding |-> embedding]

GitaStore == <<Chunk(<<"duty without attachment">>, <<1, 0>>),
               Chunk(<<"the nature of the self">>, <<0, 1>>)>>

Absent == [exists |-> FALSE, parses |-> FALSE, value |-> JNull]
Garbage == [exists |-> TRUE, parses |-> FALSE, value |-> JNull]
Json(v) == [exists |-> TRUE, parses |-> TRUE, value |-> v]

FileContents ==
    {Absent, Garbage, Json(JNull), Json(JArr(<<>>)), Json(JObj), Json(JNum(7)),
     Json(JArr(GitaStore))}

\* a non-empty sequence of {text, embedding} records
IsChunkStore(v) == v.kind = "array" /\ Len(v.items) > 0

-----------------------------------------------------------------------------
(* Session Memory: NodeCache({ stdTTL: 3600, checkperiod: 600 })            *)
(* An entry keeps its value v and its expiry time t, held relative to now.  *)

SessionKeys == {<<"s1">>, <<"s2">>}

NoEntry == [present |-> FALSE, v |-> <<>>, t |-> 0]

\* _check: data.t < Date.now()
Expired(e) == e.t < 0

\* a get that hands out whatever the table still holds
CacheGetStale(cache, key) == IF cache[key].present THEN cache[key].v ELSE <<>>

\* what get(key) returns, [] standing in for undefined as in `get(...) || []`
CacheGet(cache, key) ==
    IF cache[key].present /\ ~Expired(cache[key]) THEN cache[key].v ELSE <<>>

\* a get that also restarts the countdown of the entry it reads
AfterGetTouch(cache, key) ==
    IF cache[key].present /\ Expired(cache[key]) THEN [cache EXCEPT ![key] = NoEntry]
    ELSE IF cache[key].present THEN [cache EXCEPT ![key].t = stdTTL]
    ELSE cache

\* the table after get(key): an expired entry is deleted on the way
AfterGet(cache, key) ==
    IF cache[key].present /\ Expired(cache[key])
    THEN [cache EXCEPT ![key] = NoEntry] ELSE cache

\* the table after set(key, value): the entry's expiry restarts at now + stdTTL
\* one entry for all sessions: the value is written under every key
CacheSetShared(cache, key, value) ==
    [k \in DOMAIN cache |-> [present |-> TRUE, v |-> value, t |-> stdTTL]]

CacheSet(cache, key, value) ==
    [cache EXCEPT ![key] = [present |-> TRUE, v |-> value, t |-> stdTTL]]

\* a sweep that deletes nothing
SweptNothing(cache) == cache

\* _checkData: every expired entry is deleted
Swept(cache) ==
    [k \in DOMAIN cache |-> IF cache[k].present /\ Expired(cache[k]) THEN NoEntry ELSE cache[k]]

\* time moves on by d: every expiry time comes d closer (kept from running away below -d)
Aged(cache, d) ==
    [k \in DOMAIN cache |->
        IF cache[k].present /\ ~Expired(cache[k])
        THEN [cache[k] EXCEPT !.t = cache[k].t - d] ELSE cache[k]]

\* "longer ago than the TTL", and "not yet", for the time since an entry was accessed
LongAgo == stdTTL + checkperiod
Never == stdTTL + checkperiod + checkperiod

-----------------------------------------------------------------------------
(* /chat: inputs, collaborator results, responses *)

Slots == 1..NumSlots

SessionIdInputs == {Undefined, Str(<<>>)} \cup {Str(k) : k \in SessionKeys}
PromptInputs == {Undefined, Str(<<>>), Str(<<"a">>), Str(<<"b">>)}

QueryVectors == {<<1, 0>>, <<1, 2>>}

\* what result?.response?.text?.() can give: a text, blank text, nothing at all
GenResults == {Str(<<"m">>), Str(<<" ">>), Str(<<"\n", " ", "\t">>), Str(<<>>), Undefined}

Clarification == <<"Could you share a bit more detail so I can offer clearer guidance?">>
RequiredMsg == <<"sessionId and prompt are required">>
InternalMsg == <<"An internal server error occurred.">>

NoBody == [kind |-> "none", text |-> <<>>]
ErrorBody(msg) == [kind |-> "error", text |-> msg]
ResponseBody(text) == [kind |-> "response", text |-> text]

IdleReq ==
    [pc |-> "idle", sessionId |-> Undefined, prompt |-> Undefined, chatHistory |-> <<>>,
     embedText |-> <<>>, fullPrompt |-> <<>>, status |-> 0, body |-> NoBody,
     didGet |-> FALSE, overlap |-> FALSE]

Active(q) == q.pc \in {"embed", "generate"}

\* the template of the generation message around context and prompt
FullPrompt(context, prompt) ==
    <<"You are a wise and compassionate guide.", "**CONTEXT:**">> \o context
        \o <<"**USER QUESTION:**">> \o prompt \o <<"**Your Guidance:">>

\* a validation that forgets the prompt
InvalidSessionOnly(sessionId, prompt) == Falsy(sessionId)

\* !sessionId || !prompt
Invalid(sessionId, prompt) == Falsy(sessionId) \/ Falsy(prompt)

\* text.trim().length > 0 ? text : clarification,  text = result?.response?.text?.() ?? ''
\* the text of the result is used as it comes
finalTextRaw(result) == IF result.type = "undefined" THEN <<>> ELSE result.s

finalText(result) ==
    LET text == IF result.type = "undefined" THEN <<>> ELSE result.s
    IN  IF Len(Trim(text)) > 0 THEN text ELSE Clarification

-----------------------------------------------------------------------------
(* Startup *)

Init ==
    /\ phase = "loading"
    /\ file \in FileContents
    /\ pdfChunksWithEmbeddings = JArr(<<>>)
    /\ loads = 0
    /\ exitCode = -1
    /\ sessionCache = [k \in SessionKeys |-> NoEntry]
    /\ sweepDue = FALSE
    /\ req = [r \in Slots |-> IdleReq]
    /\ lastSet = [k \in SessionKeys |-> [known |-> FALSE, v |-> <<>>, age |-> 0]]
    /\ sinceAccess = [k \in SessionKeys |-> Never]
    /\ call = [fn |-> "none"]

\* whether loadEmbeddings throws on this file
LoadThrows(f) == ~f.exists \/ ~f.parses \/ JFalsy(f.value) \/ LengthIsZero(f.value)

\* loadEmbeddings: readFile resolves or rejects, JSON.parse, the emptiness test
loadEmbeddings ==
    /\ phase = "loading"
    /\ loads' = loads + 1
    /\ pdfChunksWithEmbeddings' =
          IF file.exists /\ file.parses THEN file.value ELSE pdfChunksWithEmbeddings
    /\ IF LoadThrows(file)
       THEN phase' = "exited" /\ exitCode' = 1
       ELSE phase' = "loaded" /\ exitCode' = exitCode
    /\ UNCHANGED <<file, sessionCache, sweepDue, req, lastSet, sinceAccess, call>>

\* startServer after the await: app.listen
Listen ==
    /\ phase = "loaded"
    /\ phase' = "listening"
    /\ UNCHANGED <<file, pdfChunksWithEmbeddings, loads, exitCode, sessionCache, sweepDue,
                   req, lastSet, sinceAccess, call>>

-----------------------------------------------------------------------------
(* Time and the periodic sweep of the session table *)

Tick ==
    /\ phase # "exited"
    /\ ~sweepDue
    /\ sessionCache' = Aged(sessionCache, checkperiod)
    /\ sweepDue' = TRUE
    /\ lastSet' = [k \in SessionKeys |->
                     IF lastSet[k].known /\ lastSet[k].age + checkperiod <= stdTTL
                     THEN [lastSet[k] EXCEPT !.age = lastSet[k].age + checkperiod]
                     ELSE [known |-> FALSE, v |-> <<>>, age |-> 0]]
    /\ sinceAccess' = [k \in SessionKeys |->
                         IF sinceAccess[k] = Never THEN Never
                         ELSE Min(LongAgo, sinceAccess[k] + checkperiod)]
    /\ UNCHANGED <<phase, file, pdfChunksWithEmbeddings, loads, exitCode, req, call>>

CheckData ==
    /\ phase # "exited"
    /\ sweepDue
    /\ sessionCache' = Swept(sessionCache)
    /\ sweepDue' = FALSE
    /\ UNCHANGED <<phase, file, pdfChunksWithEmbeddings, loads, exitCode, req, lastSet,
                   sinceAccess, call>>

-----------------------------------------------------------------------------
(* POST /chat *)

NotReq == <<phase, file, pdfChunksWithEmbeddings, loads, exitCode, sweepDue, call>>

\* res.status(status).json(body): the handler is over; only the response stays in the slot
Respond(q, status, body) ==
    [IdleReq EXCEPT !.pc = "done", !.sessionId = q.sessionId, !.prompt = q.prompt,
                    !.didGet = q.didGet, !.status = status, !.body = body]

\* lines 161-165: a missing or empty field is answered 400 before anything else
ChatReject(r, sessionId, prompt) ==
    /\ phase = "listening"
    /\ req[r].pc = "idle"
    /\ Invalid(sessionId, prompt)
    /\ req' = [req EXCEPT ![r] =
                  Respond([IdleReq EXCEPT !.sessionId = sessionId, !.prompt = prompt],
                          400, ErrorBody(RequiredMsg))]
    /\ UNCHANGED <<NotReq, sessionCache, lastSet, sinceAccess>>

\* lines 167-171 and 79-90: the history is read, the combined query is built and sent
\* to the embedding service (no call is made while the store is empty)
ChatStart(r, sessionId, prompt) ==
    LET key == sessionId.s
        chatHistory == CacheGet(sessionCache, key)
        hit == sessionCache[key].present /\ ~Expired(sessionCache[key])
        others == {o \in Slots \ {r} : Active(req[o]) /\ req[o].sessionId = sessionId}
        started == [IdleReq EXCEPT !.sessionId = sessionId, !.prompt = prompt,
                                   !.chatHistory = chatHistory, !.didGet = TRUE,
                                   !.overlap = (others # {})]
    IN  /\ phase = "listening"
        /\ req[r].pc = "idle"
        /\ ~Invalid(sessionId, prompt)
        /\ Len(chatHistory) + 2 <= MaxTurns
        /\ sessionCache' = AfterGet(sessionCache, key)
        /\ sinceAccess' = IF hit THEN [sinceAccess EXCEPT ![key] = 0] ELSE sinceAccess
        /\ req' = [o \in Slots |->
                    IF o = r
                    THEN IF LengthIsZero(pdfChunksWithEmbeddings)
                         THEN [started EXCEPT !.pc = "generate",
                                              !.fullPrompt = FullPrompt(<<>>, prompt.s)]
                         ELSE [started EXCEPT !.pc = "embed",
                                  !.embedText = combinedQuery(chatHistory, prompt.s)]
                    ELSE IF o \in others THEN [req[o] EXCEPT !.overlap = TRUE]
                    ELSE req[o]]
        /\ UNCHANGED <<NotReq, lastSet>>

\* lines 91-103 and 172-208: the query embedding arrives, the chunks are ranked, the
\* generation call is sent; a store that is no array makes .map throw
EmbedResolve(r, queryEmbedding) ==
    /\ req[r].pc = "embed"
    /\ req' = [req EXCEPT ![r] =
                IF pdfChunksWithEmbeddings.kind = "array"
                THEN [req[r] EXCEPT
                        !.pc = "generate",
                        !.fullPrompt =
                            FullPrompt(Join(RankedTexts(pdfChunksWithEmbeddings.items,
                                                        queryEmbedding, ChatTopK),
                                            <<"\n\n---\n\n">>),
                                       req[r].prompt.s)]
                ELSE Respond(req[r], 500, ErrorBody(InternalMsg))]
    /\ UNCHANGED <<NotReq, sessionCache, lastSet, sinceAccess>>

\* lines 218-221: the embedding call rejects
EmbedReject(r) ==
    /\ req[r].pc = "embed"
    /\ req' = [req EXCEPT ![r] = Respond(req[r], 500, ErrorBody(InternalMsg))]
    /\ UNCHANGED <<NotReq, sessionCache, lastSet, sinceAccess>>

\* only the model turn is pushed
PushedModelOnly(chatHistory, prompt, text) == chatHistory \o <<ModelTurn(text)>>

\* lines 212-213: the two pushes on the local history
Pushed(chatHistory, prompt, text) == chatHistory \o <<UserTurn(prompt), ModelTurn(text)>>

\* the two turns are pushed on the history stored at the time of the write
GenResolveMerge(r, result) ==
    LET key == req[r].sessionId.s
        history == Pushed(CacheGet(sessionCache, key), req[r].prompt.s, finalText(result))
    IN  /\ req[r].pc = "generate"
        /\ sessionCache' = CacheSet(sessionCache, key, history)
        /\ lastSet' = [lastSet EXCEPT ![key] = [known |-> TRUE, v |-> history, age |-> 0]]
        /\ sinceAccess' = [sinceAccess EXCEPT ![key] = 0]
        /\ req' = [req EXCEPT ![r] = Respond(req[r], 200, ResponseBody(finalText(result)))]
        /\ UNCHANGED NotReq

\* lines 208-216: the generation call resolves; the two turns are pushed, the history is
\* written back and the model text is the 200 response
GenResolve(r, result) ==
    LET key == req[r].sessionId.s
        history == Pushed(req[r].chatHistory, req[r].prompt.s, finalText(result))
    IN  /\ req[r].pc = "generate"
        /\ sessionCache' = CacheSet(sessionCache, key, history)
        /\ lastSet' = [lastSet EXCEPT ![key] = [known |-> TRUE, v |-> history, age |-> 0]]
        /\ sinceAccess' = [sinceAccess EXCEPT ![key] = 0]
        /\ req' = [req EXCEPT ![r] = Respond(req[r], 200, ResponseBody(finalText(result)))]
        /\ UNCHANGED NotReq

\* the user turn is written back before the generation call and stays after it fails
GenRejectPartial(r) ==
    /\ req[r].pc = "generate"
    /\ sessionCache' = CacheSet(sessionCache, req[r].sessionId.s,
                                req[r].chatHistory \o <<UserTurn(req[r].prompt.s)>>)
    /\ req' = [req EXCEPT ![r] = Respond(req[r], 500, ErrorBody(InternalMsg))]
    /\ UNCHANGED <<NotReq, lastSet, sinceAccess>>

\* lines 218-221: the generation call rejects
GenReject(r) ==
    /\ req[r].pc = "generate"
    /\ req' = [req EXCEPT ![r] = Respond(req[r], 500, ErrorBody(InternalMsg))]
    /\ UNCHANGED <<NotReq, sessionCache, lastSet, sinceAccess>>

\* the response has gone out and the connection slot is free again
Close(r) ==
    /\ req[r].pc = "done"
    /\ req' = [req EXCEPT ![r] = IdleReq]
    /\ UNCHANGED <<NotReq, sessionCache, lastSet, sinceAccess>>

\* the /chat traffic of the connection slots S, with request bodies from the given set
ChatNext(S, bodies) ==
    \/ \E r \in S, b \in bodies : ChatReject(r, b.sessionId, b.prompt)
    \/ \E r \in S, b \in bodies : ChatStart(r, b.sessionId, b.prompt)
    \/ \E r \in S, queryEmbedding \in QueryVectors : EmbedResolve(r, queryEmbedding)
    \/ \E r \in S : EmbedReject(r)
    \/ \E r \in S, result \in GenResults : GenResolve(r, result)
    \/ \E r \in S : GenReject(r)
    \/ \E r \in S : Close(r)

Body(sessionId, prompt) == [sessionId |-> sessionId, prompt |-> prompt]

\* the bodies sent by the clients of one session: the well-formed one, and one with each
\* field in turn missing or empty
OneSessionBodies ==
    {Body(Str(<<"s1">>), Str(<<"a">>)),
     Body(Undefined, Str(<<"a">>)), Body(Str(<<>>), Str(<<"a">>)),
     Body(Str(<<"s1">>), Undefined), Body(Str(<<"s1">>), Str(<<>>))}

\* the server with one session's clients: overlapping requests, time and the sweep
Next ==
    \/ loadEmbeddings
    \/ Listen
    \/ Tick
    \/ CheckData
    \/ ChatNext(Slots, OneSessionBodies)

Spec == Init /\ [][Next]_vars

\* the same server for the life of its entries: a rejected request touches none, so one
\* kind of rejected body is kept
SweepBodies == {Body(Str(<<"s1">>), Str(<<"a">>)), Body(Str(<<"s1">>), Undefined)}

NextSweep ==
    \/ loadEmbeddings
    \/ Listen
    \/ Tick
    \/ CheckData
    \/ ChatNext(Slots, SweepBodies)

\* time passes and the checkperiod timer fires for as long as the process lives
FairSpec == Init /\ [][NextSweep]_vars /\ WF_vars(Tick) /\ WF_vars(CheckData)

\* every body the two fields can make
AllBodies == {Body(sessionId, prompt) : sessionId \in SessionIdInputs, prompt \in PromptInputs}

\* the bodies sent by the clients of two sessions, each session with a prompt of its own
\* so that a turn tells the session it came from, and a body without sessionId
SessionBodies ==
    {Body(Str(<<"s1">>), Str(<<"a">>)), Body(Str(<<"s2">>), Str(<<"b">>)),
     Body(Undefined, Str(<<"a">>))}

\* the server with the clients of two sessions, within one checkperiod
NextSessions ==
    \/ loadEmbeddings
    \/ Listen
    \/ ChatNext(Slots, SessionBodies)

SpecSessions == Init /\ [][NextSessions]_vars

-----------------------------------------------------------------------------
(* retrieveRelevantChunksVector called on its own *)

Vectors == {<<1, 0>>, <<2, 0>>, <<0, 1>>, <<1, 1>>, <<-1, 0>>}

\* the stores of n chunks: chunk i has the text "c<i>" and any of the vectors
ChunkTexts == <<<<"c1">>, <<"c2">>, <<"c3">>, <<"c4">>, <<"c5">>>>

StoresOf(n) == {[i \in 1..n |-> Chunk(ChunkTexts[i], e[i])] : e \in [1..n -> Vectors]}

Stores == UNION {StoresOf(n) : n \in 0..MaxStore}

Histories ==
    {<<>>,
     <<UserTurn(<<"a">>), ModelTurn(<<"m">>)>>,
     <<UserTurn(<<"a">>), ModelTurn(<<"m">>), UserTurn(<<"b">>), ModelTurn(Clarification),
       UserTurn(<<"c">>), ModelTurn(<<"n">>)>>}

ServerOff ==
    /\ phase = "exited"
    /\ file = Absent
    /\ pdfChunksWithEmbeddings = JArr(<<>>)
    /\ loads = 0
    /\ exitCode = 0
    /\ sessionCache = [k \in SessionKeys |-> NoEntry]
    /\ sweepDue = FALSE
    /\ req = [r \in Slots |-> IdleReq]
    /\ lastSet = [k \in SessionKeys |-> [known |-> FALSE, v |-> <<>>, age |-> 0]]
    /\ sinceAccess = [k \in SessionKeys |-> Never]

ServerVars == <<phase, file, pdfChunksWithEmbeddings, loads, exitCode, sessionCache,
                sweepDue, req, lastSet, sinceAccess>>

InitRetrieve ==
    /\ ServerOff
    /\ \E store \in Stores, history \in Histories, topK \in 1..MaxTopK :
          call = [fn |-> "retrieve", pc |-> "start", store |-> store, history |-> history,
                  query |-> <<"q">>, topK |-> topK, embedText |-> <<>>,
                  queryEmbedding |-> <<>>, out |-> <<>>]

\* the combined query is sent whatever the store holds
RetrieveCallUnguarded ==
    /\ call.fn = "retrieve" /\ call.pc = "start"
    /\ call' = [call EXCEPT !.pc = "await",
                            !.embedText = combinedQuery(call.history, call.query)]
    /\ UNCHANGED ServerVars

\* lines 79-90: an empty store returns [] at once; otherwise the combined query is sent
RetrieveCall ==
    /\ call.fn = "retrieve" /\ call.pc = "start"
    /\ call' = IF Len(call.store) = 0
               THEN [call EXCEPT !.pc = "returned", !.out = <<>>]
               ELSE [call EXCEPT !.pc = "await",
                                 !.embedText = combinedQuery(call.history, call.query)]
    /\ UNCHANGED ServerVars

\* lines 91-103: the query embedding arrives; score, sort, slice
RetrieveEmbedded(queryEmbedding) ==
    /\ call.fn = "retrieve" /\ call.pc = "await"
    /\ call' = [call EXCEPT !.pc = "returned", !.queryEmbedding = queryEmbedding,
                            !.out = RankedTexts(call.store, queryEmbedding, call.topK)]
    /\ UNCHANGED ServerVars

\* line 88: the embedding call rejects and retrieve rejects with it
RetrieveFailed ==
    /\ call.fn = "retrieve" /\ call.pc = "await"
    /\ call' = [call EXCEPT !.pc = "threw"]
    /\ UNCHANGED ServerVars

NextRetrieve ==
    \/ RetrieveCall
    \/ \E queryEmbedding \in Vectors : RetrieveEmbedded(queryEmbedding)
    \/ RetrieveFailed

SpecRetrieve == InitRetrieve /\ [][NextRetrieve]_vars

-----------------------------------------------------------------------------
(* chunkText called on its own *)

\* the token sequences of length 0..n over the alphabet
SeqsUpTo(alphabet, n) == UNION {[1..k -> alphabet] : k \in 0..n}

Clamp(x, len) == IF x < 0 THEN 0 ELSE Min(x, len)

\* String.prototype.substring(start, end): both ends are clamped to 0..length and
\* swapped when start > end
Substring(s, start, end) ==
    LET a == Clamp(start, Len(s))
        b == Clamp(end, Len(s))
    IN  IF a <= b THEN SubSeq(s, a + 1, b) ELSE SubSeq(s, b + 1, a)

\* each chunk loses its last token
PieceShort(text, i, chunkSize) == Substring(text, i, i + chunkSize - 1)

\* text.substring(i, i + chunkSize)
Piece(text, i, chunkSize) == Substring(text, i, i + chunkSize)

InitChunkText ==
    /\ ServerOff
    /\ \E text \in SeqsUpTo({"a", "b"}, MaxTextLen), chunkSize \in -1..MaxChunkSize :
          call = [fn |-> "chunkText", pc |-> "loop", text |-> text, chunkSize |-> chunkSize,
                  i |-> 0, chunks |-> <<>>]

\* one turn of the for loop: i < text.length, push, i += chunkSize
ChunkTextPush ==
    /\ call.fn = "chunkText" /\ call.pc = "loop"
    /\ call.i < Len(call.text)
    /\ Len(call.chunks) < MaxPushes
    /\ call' = [call EXCEPT !.chunks = Append(call.chunks,
                                              Piece(call.text, call.i, call.chunkSize)),
                            !.i = call.i + call.chunkSize]
    /\ UNCHANGED ServerVars

\* the loop condition fails and the chunks are returned
ChunkTextReturn ==
    /\ call.fn = "chunkText" /\ call.pc = "loop"
    /\ ~(call.i < Len(call.text))
    /\ call' = [call EXCEPT !.pc = "returned"]
    /\ UNCHANGED ServerVars

NextChunkText == ChunkTextPush \/ ChunkTextReturn

SpecChunkText == InitChunkText /\ [][NextChunkText]_vars

-----------------------------------------------------------------------------
(* sanitizeText called on its own; here every token is one character *)

\* "a" and "b" are letters, "CTL" a control character (neither letter, number, punctuation,
\* space separator, newline, carriage return nor tab)
SanitizeAlphabet == {"a", "CTL", " ", "\t", "\r", "\n", "NBSP"}

\* [^\p{L}\p{N}\p{P}\p{Zs}\n\r\t]
Disallowed(c) == c \notin {"a", "b", " ", "\t", "\r", "\n", "NBSP"}

\* .replace(/[^\p{L}\p{N}\p{P}\p{Zs}\n\r\t]/gu, ' ')
ReplaceDisallowed(s) == [k \in 1..Len(s) |-> IF Disallowed(s[k]) THEN " " ELSE s[k]]

\* the number of leading tokens of s that are in the set
RECURSIVE RunLength(_, _)
RunLength(s, set) == IF s # <<>> /\ Head(s) \in set THEN 1 + RunLength(Tail(s), set) ELSE 0

Drop(s, n) == SubSeq(s, n + 1, Len(s))

\* .replace(/[ \t]+/g, ' ')
RECURSIVE CollapseBlanks(_)
CollapseBlanks(s) ==
    IF s = <<>> THEN <<>>
    ELSE IF Head(s) \in {" ", "\t"}
         THEN <<" ">> \o CollapseBlanks(Drop(s, RunLength(s, {" ", "\t"})))
         ELSE <<Head(s)>> \o CollapseBlanks(Tail(s))

\* .replace(/\n{3,}/g, '\n\n')
RECURSIVE CollapseNewlines(_)
CollapseNewlines(s) ==
    IF s = <<>> THEN <<>>
    ELSE IF Head(s) = "\n"
         THEN LET n == RunLength(s, {"\n"})
              IN  (IF n >= 3 THEN <<"\n", "\n">> ELSE SubSeq(s, 1, n))
                      \o CollapseNewlines(Drop(s, n))
         ELSE <<Head(s)>> \o CollapseNewlines(Tail(s))

\* the blanks are collapsed before the disallowed characters become blanks
sanitizeTextSwapped(text) == Trim(CollapseNewlines(ReplaceDisallowed(CollapseBlanks(text))))

sanitizeText(text) == Trim(CollapseNewlines(CollapseBlanks(ReplaceDisallowed(text))))

InitSanitize ==
    /\ ServerOff
    /\ \E text \in SeqsUpTo(SanitizeAlphabet, MaxSanitizeLen) :
          call = [fn |-> "sanitizeText", pc |-> "start", text |-> text,
                  once |-> <<>>, twice |-> <<>>]

\* sanitizeText(text)
SanitizeOnce ==
    /\ call.fn = "sanitizeText" /\ call.pc = "start"
    /\ call' = [call EXCEPT !.pc = "once", !.once = sanitizeText(call.text)]
    /\ UNCHANGED ServerVars

\* sanitizeText of what sanitizeText returned
SanitizeTwice ==
    /\ call.fn = "sanitizeText" /\ call.pc = "once"
    /\ call' = [call EXCEPT !.pc = "twice", !.twice = sanitizeText(call.once)]
    /\ UNCHANGED ServerVars

NextSanitize == SanitizeOnce \/ SanitizeTwice

SpecSanitize == InitSanitize /\ [][NextSanitize]_vars

-----------------------------------------------------------------------------
(* The build path: createEmbeddingsFile (generateEmbeddings.js) and processPdf *)
(* (server.js), from the chunks chunkText returns for the extracted text      *)

\* the number j written with w binary digits, "a" for 0 and "b" for 1
RECURSIVE Digits(_, _)
Digits(j, w) ==
    IF w = 0 THEN <<>> ELSE Digits(j \div 2, w - 1) \o <<IF j % 2 = 1 THEN "b" ELSE "a">>

RECURSIVE DigitCount(_)
DigitCount(n) == IF n < 2 THEN 1 ELSE 1 + DigitCount(n \div 2)

\* chunk j of the document: its own word, clean or wrapped in what sanitizeText removes;
\* with noise period p > 0 every p-th chunk holds nothing that survives sanitizeText
DocChunk(j, p) ==
    IF p > 0 /\ j % p = 0 THEN <<"CTL", " ", "\n">>
    ELSE IF j % 2 = 0 THEN Digits(j, DigitCount(MaxChunks))
    ELSE <<"CTL", "\t">> \o Digits(j, DigitCount(MaxChunks)) \o <<" ", "\n">>

DocChunks(n, p) == [j \in 1..n |-> DocChunk(j, p)]

NoisePeriods == {0, 1, 3}

\* the embedding service answers a batch with one vector per request, in request order;
\* the vector returned for a text is written as the code of that text
VectorFor(text) == [k \in 1..Len(text) |-> IF text[k] = "a" THEN 1 ELSE -1]

batchEmbedContents(batch) == [k \in 1..Len(batch) |-> [values |-> VectorFor(batch[k])]]

\* Array.prototype.slice(from, to), 0 <= from <= to
Slice(s, from, to) == SubSeq(s, from + 1, Min(to, Len(s)))

\* a batch takes one chunk more than BATCH_SIZE
BatchOverlapping(nonEmptyChunks, i) == Slice(nonEmptyChunks, i, i + BATCH_SIZE + 1)

\* nonEmptyChunks.slice(i, i + BATCH_SIZE)
Batch(nonEmptyChunks, i) == Slice(nonEmptyChunks, i, i + BATCH_SIZE)

\* nonEmptyChunks.map((chunk, index) => ({ text: chunk, embedding: allEmbeddings[index].values }))
Paired(nonEmptyChunks, allEmbeddings) ==
    [j \in 1..Len(nonEmptyChunks) |-> Chunk(nonEmptyChunks[j], allEmbeddings[j].values)]

BuildFns == {"createEmbeddingsFile", "processPdf"}

\* chunks.map(sanitizeText).filter(chunk => chunk.length > 0)
NonEmptySanitized(chunks) ==
    SelectSeq([j \in 1..Len(chunks) |-> sanitizeText(chunks[j])], LAMBDA chunk : Len(chunk) > 0)

\* out is what the build has produced: the output file of createEmbeddingsFile, or for
\* processPdf the store installed in pdfChunksWithEmbeddings (Absent while none is)
InitBuild ==
    /\ ServerOff
    /\ \E fn \in BuildFns, n \in 0..MaxChunks, p \in NoisePeriods :
          call = [fn |-> fn, pc |-> "start", chunks |-> DocChunks(n, p),
                  nonEmptyChunks |-> <<>>, i |-> 0, allEmbeddings |-> <<>>,
                  outstanding |-> 0, batches |-> <<>>, out |-> Absent, exitCode |-> -1]

\* catch: process.exit(1)
BuildExit(c) == [c EXCEPT !.pc = "exited", !.exitCode = 1, !.outstanding = 0]

\* readFile or pdf rejects
BuildReadFails ==
    /\ call.fn \in BuildFns /\ call.pc = "start"
    /\ call' = BuildExit(call)
    /\ UNCHANGED ServerVars

\* sanitize, filter, the throw on no chunk, and the first turn of the batch loop up to
\* its await
BuildStart ==
    LET nonEmptyChunks == NonEmptySanitized(call.chunks)
    IN  /\ call.fn \in BuildFns /\ call.pc = "start"
        /\ call' = IF Len(nonEmptyChunks) = 0
                   THEN BuildExit([call EXCEPT !.nonEmptyChunks = nonEmptyChunks])
                   ELSE [call EXCEPT !.nonEmptyChunks = nonEmptyChunks, !.pc = "await",
                                     !.i = 0, !.outstanding = 1, !.batches = <<0>>]
        /\ UNCHANGED ServerVars

\* the batch call resolves: its embeddings are appended, i += BATCH_SIZE, and either the
\* next batch is sent or the loop is over and the store is paired up; processPdf installs
\* it, createEmbeddingsFile starts writing it
BuildBatchResolve ==
    LET allEmbeddings == call.allEmbeddings
                            \o batchEmbedContents(Batch(call.nonEmptyChunks, call.i))
        i == call.i + BATCH_SIZE
        received == [call EXCEPT !.allEmbeddings = allEmbeddings, !.i = i]
    IN  /\ call.fn \in BuildFns /\ call.pc = "await"
        /\ call' = IF i < Len(call.nonEmptyChunks)
                   THEN [received EXCEPT !.batches = Append(call.batches, i)]
                   ELSE IF call.fn = "processPdf"
                   THEN [received EXCEPT
                            !.pc = "done", !.outstanding = 0,
                            !.out = Json(JArr(Paired(call.nonEmptyChunks, allEmbeddings)))]
                   ELSE [received EXCEPT !.pc = "writing", !.outstanding = 0]
        /\ UNCHANGED ServerVars

\* the failed build leaves behind the chunks embedded so far
BuildBatchRejectPartial ==
    /\ call.fn \in BuildFns /\ call.pc = "await"
    /\ call' = BuildExit([call EXCEPT !.out =
                  Json(JArr(Paired(SubSeq(call.nonEmptyChunks, 1, Len(call.allEmbeddings)),
                                   call.allEmbeddings)))])
    /\ UNCHANGED ServerVars

\* the batch call rejects
BuildBatchReject ==
    /\ call.fn \in BuildFns /\ call.pc = "await"
    /\ call' = BuildExit(call)
    /\ UNCHANGED ServerVars

\* fs.writeFile resolves
BuildWritten ==
    /\ call.fn = "createEmbeddingsFile" /\ call.pc = "writing"
    /\ call' = [call EXCEPT !.pc = "done",
                            !.out = Json(JArr(Paired(call.nonEmptyChunks, call.allEmbeddings)))]
    /\ UNCHANGED ServerVars

\* fs.writeFile rejects: no file, or one cut short
BuildWriteFails ==
    /\ call.fn = "createEmbeddingsFile" /\ call.pc = "writing"
    /\ \E out \in {Absent, Garbage} : call' = BuildExit([call EXCEPT !.out = out])
    /\ UNCHANGED ServerVars

NextBuild ==
    \/ BuildReadFails
    \/ BuildStart
    \/ BuildBatchResolve
    \/ BuildBatchReject
    \/ BuildWritten
    \/ BuildWriteFails

SpecBuild == InitBuild /\ [][NextBuild]_vars

-----------------------------------------------------------------------------
(* Claims *)

Score(store, queryEmbedding, i) == cosineSimilarity(queryEmbedding, store[i].embedding)

\* p lists the chunks of the store by non-increasing score, equal scores in store order
IsStableRanking(p, store, queryEmbedding) ==
    /\ \A i, j \in DOMAIN p : i # j => p[i] # p[j]
    /\ \A i, j \in DOMAIN p :
          i < j => /\ ~ScoreLess(Score(store, queryEmbedding, p[i]),
                                 Score(store, queryEmbedding, p[j]))
                   /\ ScoreEq(Score(store, queryEmbedding, p[i]),
                              Score(store, queryEmbedding, p[j])) => p[i] < p[j]

\* C1: retrieve over a non-empty store of n chunks returns exactly min(topK, n) chunk
\* texts, by non-increasing cosine score against the query embedding, chunks of equal
\* score in their store order.
C1_RetrieveStableTopK ==
    (call.fn = "retrieve" /\ call.pc = "returned" /\ Len(call.store) > 0) =>
        LET n == Len(call.store)
        IN  /\ Len(call.out) = Min(call.topK, n)
            /\ \E p \in [1..n -> 1..n] :
                  /\ IsStableRanking(p, call.store, call.queryEmbedding)
                  /\ \A i \in 1..Len(call.out) : call.out[i] = call.store[p[i]].text

\* a returned ranking in which topK, a tie and a strict order all play a part
C1_Witness ==
    /\ call.fn = "retrieve" /\ call.pc = "returned"
    /\ Len(call.store) = 3 /\ call.topK = 2
    /\ call.out = <<<<"c2">>, <<"c3">>>>
    /\ ScoreEq(Score(call.store, call.queryEmbedding, 2),
               Score(call.store, call.queryEmbedding, 3))
    /\ ScoreLess(Score(call.store, call.queryEmbedding, 1),
                 Score(call.store, call.queryEmbedding, 2))

S1 == <<"s1">>

\* t occurs in the token sequence s
Contains(s, t) == \E i \in 1..(Len(s) - Len(t) + 1) : SubSeq(s, i, i + Len(t) - 1) = t

IsPrefix(a, b) == Len(a) <= Len(b) /\ SubSeq(b, 1, Len(a)) = a

\* C2: the string sent to the embedding service holds the text of each of the last 4
\* history turns that has text (followed by the new query text).
C2_HistoryTextInQuery ==
    \A r \in Slots :
        req[r].pc = "embed" =>
            LET recent == SliceLast(req[r].chatHistory, HistoryWindow)
            IN  /\ \A i \in 1..Len(recent) :
                      TurnText(recent[i]) # <<>> => Contains(req[r].embedText, TurnText(recent[i]))
                /\ IsPrefix(req[r].prompt.s,
                            SliceLast(req[r].embedText, Len(req[r].prompt.s)))

\* the step in which request r gets its 200 response
Succeeds(r) == req[r].pc = "generate" /\ req'[r].pc = "done" /\ req'[r].status = 200

\* the step in which request r, with a collaborator call outstanding, ends otherwise
Fails(r) == Active(req[r]) /\ req'[r].pc = "done" /\ req'[r].status # 200

\* the step in which the handler of request r reads the session history
Reads(r) == req[r].pc = "idle" /\ req'[r].didGet

C4_FailureLeavesSession ==
    [][\A r \in Slots :
          /\ Fails(r) =>
                /\ req'[r].status = 500 /\ req'[r].body = ErrorBody(InternalMsg)
                /\ sessionCache' = sessionCache
                /\ \A o \in Slots \ {r} : req'[o] = req[o]
          /\ Reads(r) =>
                \A k \in SessionKeys : CacheGet(sessionCache', k) = CacheGet(sessionCache, k)]_vars

\* a request of a session with a stored exchange has failed
C4_Witness ==
    \E r \in Slots :
        /\ req[r].pc = "done" /\ req[r].status = 500 /\ req[r].didGet
        /\ req[r].sessionId = Str(S1)
        /\ CacheGet(sessionCache, S1) # <<>>

\* C5: the history a request reads is exactly the turns last written for its sessionId
\* when less than the TTL has passed since that write, and empty when the sessionId was
\* never written or more than the TTL has passed.
C5_GetAfterSet ==
    [][\A r \in Slots :
          Reads(r) =>
              LET key == req'[r].sessionId.s
              IN  /\ (lastSet[key].known /\ lastSet[key].age < stdTTL) =>
                        req'[r].chatHistory = lastSet[key].v
                  /\ ~lastSet[key].known => req'[r].chatHistory = <<>>]_vars

\* a request holds a history it read some time after it was written
C5_Witness ==
    \E r \in Slots :
        /\ req[r].pc = "embed" /\ Len(req[r].chatHistory) = 2
        /\ lastSet[S1].known /\ lastSet[S1].age >= checkperiod
        /\ lastSet[S1].v = req[r].chatHistory

C7_EventuallySwept ==
    \A k \in SessionKeys :
        sessionCache[k].present ~> (~sessionCache[k].present \/ sinceAccess[k] = 0)

\* an entry last accessed longer ago than the TTL is gone, with no request around
C7_Witness ==
    /\ sinceAccess[S1] = LongAgo
    /\ ~sessionCache[S1].present
    /\ \A r \in Slots : req[r].pc = "idle"

\* C8: while a request is being handled the server is listening, the store was loaded
\* exactly once, and it is a non-empty store of chunks.
C8_ServedOnlyWithStore ==
    \A r \in Slots :
        req[r].pc # "idle" =>
            /\ phase = "listening" /\ loads = 1
            /\ IsChunkStore(pdfChunksWithEmbeddings)

\* C9: load ends in a fatal exit exactly when the file is absent, does not parse, or
\* does not hold a non-empty sequence of chunk records.
C9_LoadRejectsMalformed ==
    loads > 0 =>
        /\ (phase = "exited" /\ exitCode = 1)
              <=> ~(file.exists /\ file.parses /\ IsChunkStore(file.value))
        /\ phase # "exited" => IsChunkStore(pdfChunksWithEmbeddings)

MissingOrEmpty(v) == v \in {Undefined, Str(<<>>)}

\* C10: a request whose sessionId or prompt is missing or empty is answered 400 with the
\* fixed error body in the step it arrives, having read and written no session entry and
\* sent nothing to the embedding or generation service.
C10_RejectsMissingFields ==
    [][\A r \in Slots :
          (req[r].pc = "idle" /\ req'[r].pc # "idle"
              /\ (MissingOrEmpty(req'[r].sessionId) \/ MissingOrEmpty(req'[r].prompt))) =>
                /\ req'[r].pc = "done" /\ req'[r].status = 400
                /\ req'[r].body = ErrorBody(RequiredMsg)
                /\ ~req'[r].didGet
                /\ req'[r].embedText = <<>> /\ req'[r].fullPrompt = <<>>
                /\ sessionCache' = sessionCache]_vars

\* a request of an existing session was rejected for its missing prompt
C10_Witness ==
    \E r \in Slots :
        /\ req[r].pc = "done" /\ req[r].status = 400
        /\ req[r].sessionId = Str(S1) /\ req[r].prompt = Undefined
        /\ sessionCache[S1].present

\* the generation service gave no text, or an empty or whitespace-only one
Blank(result) ==
    result.type = "undefined" \/ \A i \in 1..Len(result.s) : result.s[i] \in {" ", "\n", "\t"}

\* C11: when the generation call resolves with no text or with an empty or
\* whitespace-only text, the request is answered 200 with the fixed clarification string,
\* and the model turn appended to the stored history carries that same string.
C11_BlankBecomesClarification ==
    [][\A r \in Slots :
          Succeeds(r) =>
              \A result \in GenResults :
                  (Blank(result) /\ GenResolve(r, result)) =>
                      LET stored == sessionCache'[req[r].sessionId.s]
                      IN  /\ req'[r].pc = "done" /\ req'[r].status = 200
                          /\ req'[r].body = ResponseBody(Clarification)
                          /\ stored.present
                          /\ stored.v[Len(stored.v)] = ModelTurn(Clarification)
                          /\ stored.v[Len(stored.v) - 1] = UserTurn(req[r].prompt.s)]_vars

\* a request was answered with the clarification string, which is the last stored turn
C11_Witness ==
    \E r \in Slots :
        /\ req[r].pc = "done" /\ req[r].status = 200
        /\ req[r].body = ResponseBody(Clarification)
        /\ sessionCache[S1].present /\ Len(sessionCache[S1].v) = 2
        /\ sessionCache[S1].v[2] = ModelTurn(Clarification)

RECURSIVE Concat(_)
Concat(seqs) == IF seqs = <<>> THEN <<>> ELSE Head(seqs) \o Concat(Tail(seqs))

\* C12: for a positive chunk length N the chunks returned for a text are its consecutive
\* pieces, none overlapping the next, each of 1..N tokens, and their concatenation in
\* order is the text.
C12_ChunksPartitionText ==
    (call.fn = "chunkText" /\ call.pc = "returned" /\ call.chunkSize > 0) =>
        LET N == call.chunkSize
            n == Len(call.chunks)
        IN  /\ Concat(call.chunks) = call.text
            /\ \A k \in 1..n :
                  /\ Len(call.chunks[k]) \in 1..N
                  /\ call.chunks[k] = SubSeq(call.text, (k - 1) * N + 1,
                                             Min(k * N, Len(call.text)))

\* a text of 4 tokens was cut into a chunk of 3 and a chunk of 1
C12_Witness ==
    /\ call.fn = "chunkText" /\ call.pc = "returned"
    /\ Len(call.text) = 4 /\ call.chunkSize = 3
    /\ Len(call.chunks) = 2 /\ Len(call.chunks[2]) = 1

\* C19: chunkText called with a chunk length N <= 0 fails with an error: it neither
\* returns chunks nor goes on pushing chunks (with N > 0 it returns).
C19_NonPositiveLengthFails ==
    (call.fn = "chunkText" /\ call.chunkSize <= 0) =>
        (call.pc # "returned" /\ call.chunks = <<>>)

\* C13: sanitizing a sanitized text changes nothing, for texts mixing letters, control
\* characters, spaces, tabs, carriage returns, newlines and non-ASCII spaces.
C13_SanitizeIdempotent ==
    (call.fn = "sanitizeText" /\ call.pc = "twice") => call.twice = call.once

\* a text in which a control character, a tab, a run of newlines and a non-ASCII space
\* all were at work has been sanitized twice
C13_Witness ==
    /\ call.fn = "sanitizeText" /\ call.pc = "twice"
    /\ call.text = <<"NBSP", "a", "CTL", "\t", "a">>
    /\ call.once = <<"a", " ", "a">>

\* the chunks of the document that are not empty once sanitized, in document order
Survivors(chunks) == SelectSeq([j \in 1..Len(chunks) |-> sanitizeText(chunks[j])],
                               LAMBDA t : t # <<>>)

\* C14: the build sends its batches one after another in chunk order, the next only when
\* all embeddings of the ones before have arrived, and the store it produces has one
\* entry per surviving chunk, in document order, each with the text of the chunk and the
\* vector returned for that text, whatever the number of chunks.
C14_BatchesInOrderStoreAligned ==
    call.fn \in BuildFns =>
        /\ call.outstanding \in 0..1
        /\ \A k \in 1..Len(call.batches) : call.batches[k] = (k - 1) * BATCH_SIZE
        /\ call.pc = "await" =>
              /\ call.outstanding = 1
              /\ Len(call.allEmbeddings) = call.batches[Len(call.batches)]
        /\ call.pc = "done" =>
              LET store == call.out.value.items
                  survivors == Survivors(call.chunks)
              IN  /\ call.out.exists /\ call.out.parses /\ call.out.value.kind = "array"
                  /\ Len(store) = Len(survivors)
                  /\ Len(call.batches) * BATCH_SIZE >= Len(store)
                  /\ \A j \in 1..Len(store) :
                        /\ store[j].text = survivors[j]
                        /\ store[j].embedding = VectorFor(survivors[j])

\* a store of more chunks than one batch, not a multiple of the batch size and fewer than
\* the document had, has been written
C14_Witness ==
    /\ call.fn = "createEmbeddingsFile" /\ call.pc = "done"
    /\ call.batches = <<0, BATCH_SIZE>>
    /\ Len(call.out.value.items) % BATCH_SIZE # 0
    /\ Len(call.out.value.items) < Len(call.chunks)

\* C15: a build whose document leaves no chunk after sanitizing ends in the fatal exit
\* without a batch call having been sent, a build one of whose batch calls fails ends in
\* the fatal exit, and a build that ended before all embeddings had arrived has written
\* or installed no store, complete or partial.
C15_BuildAllOrNothing ==
    /\ [][call.fn \in BuildFns =>
             /\ (call.pc = "start" /\ Survivors(call.chunks) = <<>>) =>
                   /\ call'.pc = "exited" /\ call'.exitCode = 1
                   /\ call'.batches = <<>> /\ call'.outstanding = 0
                   /\ call'.out = Absent
             /\ (call.pc = "await" /\ Len(call'.allEmbeddings) = Len(call.allEmbeddings)) =>
                   /\ call'.pc = "exited" /\ call'.exitCode = 1
                   /\ call'.out = Absent]_vars
    /\ [](call.fn \in BuildFns =>
             /\ (call.pc = "exited" /\ Len(call.allEmbeddings) < Len(Survivors(call.chunks))) =>
                   call.out = Absent
             /\ call.out # Absent => Len(call.allEmbeddings) = Len(Survivors(call.chunks)))

\* the second batch call of a build failed after the first had brought its embeddings
C15_Witness ==
    /\ call.fn \in BuildFns /\ call.pc = "exited" /\ call.exitCode = 1
    /\ Len(call.allEmbeddings) = BATCH_SIZE
    /\ call.batches = <<0, BATCH_SIZE>>
    /\ call.out = Absent

\* C16: retrieve called while the store is empty returns the empty sequence at once: it
\* sends nothing to the embedding service and does not throw, whatever the history and
\* topK.
C16_EmptyStoreReturnsEmpty ==
    (call.fn = "retrieve" /\ Len(call.store) = 0 /\ call.pc # "start") =>
        /\ call.pc = "returned"
        /\ call.out = <<>>
        /\ call.embedText = <<>> /\ call.queryEmbedding = <<>>

\* retrieve has returned for an empty store and a history of six turns
C16_Witness ==
    /\ call.fn = "retrieve" /\ call.pc = "returned"
    /\ Len(call.store) = 0 /\ Len(call.history) = 6 /\ call.topK = 2
    /\ call.out = <<>>

S2 == <<"s2">>

\* the prompt the clients of a session send
PromptOf(k) == IF k = S1 THEN <<"a">> ELSE <<"b">>

\* every user turn of the history carries the prompt of session k
OnlyTurnsOf(history, k) ==
    \A i \in 1..Len(history) :
        history[i].role = "user" => TurnText(history[i]) = PromptOf(k)

\* C17: whatever the interleaving of the requests of two sessions, a step of a request
\* of one session leaves the stored entry of the other session as it was, the history a
\* request reads is the one stored under its own sessionId, and no history stored for a
\* session or held by one of its requests has a user turn of the other session.
C17_SessionsIsolated ==
    /\ [][\A r \in Slots, k \in SessionKeys :
             /\ (req'[r] # req[r] /\ Str(k) \notin {req[r].sessionId, req'[r].sessionId}) =>
                   sessionCache'[k] = sessionCache[k]
             /\ (Reads(r) /\ req'[r].sessionId = Str(k)) =>
                   req'[r].chatHistory = CacheGet(sessionCache, k)]_vars
    /\ [](\A k \in SessionKeys :
             /\ sessionCache[k].present => OnlyTurnsOf(sessionCache[k].v, k)
             /\ \A r \in Slots :
                   (Active(req[r]) /\ req[r].sessionId = Str(k)) =>
                       OnlyTurnsOf(req[r].chatHistory, k))

\* a request of session s1 is waiting for the generation service with the first exchange
\* of s1 in hand, while a request of s2 has just stored the first exchange of s2
C17_Witness ==
    \E r, o \in Slots :
        /\ req[r].pc = "generate" /\ req[r].sessionId = Str(S1)
        /\ Len(req[r].chatHistory) = 2
        /\ req[o].pc = "done" /\ req[o].status = 200 /\ req[o].sessionId = Str(S2)
        /\ sessionCache[S2].present /\ Len(sessionCache[S2].v) = 2
        /\ sessionCache[S1].present /\ sessionCache[S1].v = req[r].chatHistory

\* C18: when two requests of a session have both read the history before either wrote it
\* back, the second to write stores the common base plus its own two turns only; the two
\* turns of the first writer, which was answered 200, are no longer stored.
C18_LastWriterWins ==
    [][\A r \in Slots :
          LET key == req[r].sessionId.s
              base == req[r].chatHistory
              current == CacheGet(sessionCache, key)
          IN  (Succeeds(r) /\ Len(current) = Len(base) + 2 /\ IsPrefix(base, current)) =>
                  /\ req[r].overlap
                  /\ sessionCache'[key].v =
                        base \o <<UserTurn(req[r].prompt.s), ModelTurn(req'[r].body.text)>>
                  /\ Len(sessionCache'[key].v) = Len(current)]_vars

\* two requests of session s1 were both answered 200 and one exchange is stored
C18_Witness ==
    \E r, o \in Slots :
        /\ r # o
        /\ req[r].pc = "done" /\ req[r].status = 200 /\ req[r].sessionId = Str(S1)
        /\ req[o].pc = "done" /\ req[o].status = 200 /\ req[o].sessionId = Str(S1)
        /\ sessionCache[S1].present /\ Len(sessionCache[S1].v) = 2

\* the text has a character that is not white space
NonBlank(text) == \E i \in 1..Len(text) : text[i] \notin {" ", "\n", "\t", "\r", "NBSP"}

\* user, model, user, model, ... in pairs, every model turn with a text that is not blank
WellFormed(history) ==
    /\ Len(history) % 2 = 0
    /\ \A i \in 1..Len(history) :
          /\ history[i].role = (IF i % 2 = 1 THEN "user" ELSE "model")
          /\ history[i].role = "model" => NonBlank(TurnText(history[i]))

====
